---- MODULE Spec2Model ----
(***************************************************************************)
(* Model of src/src/FractalGenerator.tsx (the FractalGenerator component)  *)
(* as mounted by src/src/App.tsx.                                          *)
(*                                                                         *)
(* Numbers.  Every JavaScript number of the component is an IEEE-754       *)
(* binary float.  The model keeps that arithmetic: a number is a record    *)
(* [m, e] standing for m * 2^e, the mantissa m is normalised to P bits and *)
(* every operation rounds its exact result to the nearest such number,     *)
(* ties to even, as the hardware does.  Doubles carry 53 bits; the model   *)
(* carries P bits (a bound), so that the exact intermediate results fit    *)
(* the model checker's integers.  Exponents are not bounded: no value of   *)
(* the component comes near the overflow or underflow range of a double.   *)
(* The sign of zero is not kept (-0 and 0 behave alike in every            *)
(* expression of the component).                                           *)
(*                                                                         *)
(* Events.  A handler runs to its end, React commits the state it set and  *)
(* runs the effects, and only then is the next event delivered: an action  *)
(* is a handler together with the re-render and the effects that follow    *)
(* it.  The one thing that outlives an event is an Image whose src was set *)
(* and whose onload has not fired yet.                                     *)
(*                                                                         *)
(* Two specifications.  Spec is the component under events: there a call   *)
(* of generateFractal is one step and the image it makes is named by the   *)
(* call's arguments.  SpecRender is one call of generateFractal taken      *)
(* pixel by pixel, on canvases small enough to enumerate.                  *)
(***************************************************************************)
EXTENDS Integers, Sequences, FiniteSets, TLC

\* Mantissa bits of the model's floats (doubles: 53).
P == 12

Abs(x) == IF x < 0 THEN 0 - x ELSE x

Sign(x) == IF x < 0 THEN 0 - 1 ELSE 1

RECURSIVE BitLen(_)
\* Number of bits of the natural number a.
BitLen(a) == IF a = 0 THEN 0 ELSE 1 + BitLen(a \div 2)

Zero == [m |-> 0, e |-> 0]

\* a / 2^k rounded to the nearest integer, ties to even (a >= 0, k >= 0).
RoundShift(a, k) ==
  IF k = 0 THEN a
  ELSE LET q == a \div (2 ^ k)
           r == a % (2 ^ k)
           h == 2 ^ (k - 1)
       IN  IF r > h \/ (r = h /\ q % 2 = 1) THEN q + 1 ELSE q

\* The float nearest to the exact value M * 2^E.
Norm(M, E) ==
  IF M = 0 THEN Zero
  ELSE LET a == Abs(M)
           n == BitLen(a)
       IN  IF n <= P
           THEN [m |-> Sign(M) * a * (2 ^ (P - n)), e |-> E - (P - n)]
           ELSE LET q == RoundShift(a, n - P)
                IN  IF q = 2 ^ P
                    THEN [m |-> Sign(M) * (2 ^ (P - 1)), e |-> E + (n - P) + 1]
                    ELSE [m |-> Sign(M) * q, e |-> E + (n - P)]

\* An integer literal or integer-valued number.
FromInt(n) == Norm(n, 0)

FNeg(a) == [m |-> 0 - a.m, e |-> a.e]

FAbs(a) == [m |-> Abs(a.m), e |-> a.e]

\* a + b.  When the exponents differ by more than P + 2 the smaller operand
\* is below an eighth of the larger one's last place and the sum rounds to
\* the larger operand.
FAdd(a, b) ==
  IF a.m = 0 THEN b
  ELSE IF b.m = 0 THEN a
  ELSE LET hi == IF a.e >= b.e THEN a ELSE b
           lo == IF a.e >= b.e THEN b ELSE a
           d  == hi.e - lo.e
       IN  IF d > P + 2 THEN hi ELSE Norm(hi.m * (2 ^ d) + lo.m, lo.e)

FSub(a, b) == FAdd(a, FNeg(b))

FMul(a, b) == Norm(a.m * b.m, a.e + b.e)

\* a / b for b # 0: the quotient to P + 3 bits with a sticky last bit, rounded.
FDiv(a, b) ==
  IF a.m = 0 THEN Zero
  ELSE LET n  == Abs(a.m) * (2 ^ (P + 2))
           d  == Abs(b.m)
           q  == n \div d
           st == IF n % d = 0 THEN 0 ELSE 1
       IN  Norm(Sign(a.m) * Sign(b.m) * (2 * q + st), a.e - b.e - (P + 3))

FLt(a, b) == FSub(a, b).m < 0

FLe(a, b) == FSub(a, b).m <= 0

FMax(a, b) == IF FLt(a, b) THEN b ELSE a

FMin(a, b) == IF FLt(b, a) THEN b ELSE a

\* A decimal literal n/d of the source (1.1 is 11/10).
Dec(n, d) == FDiv(FromInt(n), FromInt(d))

\* Math.round: the nearest integer, ties towards +infinity.
FRound(a) ==
  IF a.e >= 0 THEN a.m * (2 ^ a.e)
  ELSE IF 0 - a.e > P + 1 THEN 0
  ELSE (a.m + 2 ^ (0 - a.e - 1)) \div (2 ^ (0 - a.e))

Null == "null"

\* The image state before the first load: no Image.
NoImage == [id |-> 0 - 1]

(***************************************************************************)
(* The literals of the component.                                          *)
(***************************************************************************)
scaleBy == Dec(11, 10)

MinZoom == Dec(1, 100000)

MaxZoom == FromInt(1000000)

sensitivity == Dec(5, 10)

Half == Dec(5, 10)

Two == FromInt(2)

Four == FromInt(4)

InitialCenterX == Dec(0 - 6, 10)

InitialCenterY == FromInt(0)

InitialZoom == FromInt(1)

InitialMaxIterations == 100

\* The canvas App mounts the component with.
AppWidth == 800

AppHeight == 600

(***************************************************************************)
(* Bounds of the model.                                                    *)
(***************************************************************************)
\* Events delivered after the starting state.
MaxSteps == 3

\* Pointer positions the events carry (pixels of the 800 x 600 stage).
Pointers == {<<400, 300>>, <<200, 450>>, <<600, 150>>}

\* Values typed into the "Max Iterations" control.
IterationInputs == {0, 0 - 2, 3}

\* Wheel events at the stage's centre before the starting state: so many
\* zoom-ins bring the zoom just below its upper limit, so many zoom-outs just
\* above its lower limit.
WheelsIn == 144

WheelsOut == 120

\* The largest canvas of a modelled pixel pass.
MaxWidth == 3

MaxHeight == 3

\* Iteration budgets of a modelled pixel pass.
PassIterations == {InitialMaxIterations, 3, 0}

(***************************************************************************)
(* generateFractal: the pixel-to-plane map, the escape loop, the colour.   *)
(***************************************************************************)
\* const scale = 4 / (width * currentZoom)
RenderScale(w, z) == FDiv(Four, FMul(FromInt(w), z))

\* const offsetX = currentCenterX - (width / 2) * scale
OffsetX(cx, w, z) == FSub(cx, FMul(FDiv(FromInt(w), Two), RenderScale(w, z)))

\* const offsetY = currentCenterY - (height / 2) * scale
OffsetY(cy, w, h, z) == FSub(cy, FMul(FDiv(FromInt(h), Two), RenderScale(w, z)))

\* const x = px * scale + offsetX
PlaneX(px, cx, w, z) == FAdd(FMul(FromInt(px), RenderScale(w, z)), OffsetX(cx, w, z))

\* const y = py * scale + offsetY
PlaneY(py, cy, w, h, z) == FAdd(FMul(FromInt(py), RenderScale(w, z)), OffsetY(cy, w, h, z))

\* One pass through "while (zx * zx + zy * zy <= 4 && iteration < maxIt)":
\* the body when the condition holds, the state unchanged once it failed.
EscapeStep(st, x, y, maxIt) ==
  IF FLe(FAdd(FMul(st.zx, st.zx), FMul(st.zy, st.zy)), Four) /\ st.iteration < maxIt
  THEN LET xtemp == FAdd(FSub(FMul(st.zx, st.zx), FMul(st.zy, st.zy)), x)
       IN  [zx |-> xtemp,
            zy |-> FAdd(FMul(FMul(Two, st.zx), st.zy), y),
            iteration |-> st.iteration + 1]
  ELSE st

RECURSIVE EscapeLoop(_, _, _, _, _)
\* n passes through the loop, the first half of them and then the rest.
EscapeLoop(st, n, x, y, maxIt) ==
  IF st.iteration < 0 \/ n <= 0 THEN st
  ELSE IF n = 1 THEN EscapeStep(st, x, y, maxIt)
  ELSE EscapeLoop(EscapeLoop(st, n \div 2, x, y, maxIt), n - (n \div 2), x, y, maxIt)

\* let zx = 0; let zy = 0; let iteration = 0; the loop, which makes at most
\* maxIt passes; the count it ends with.
Escape(x, y, maxIt) ==
  EscapeLoop([zx |-> Zero, zy |-> Zero, iteration |-> 0], maxIt, x, y, maxIt).iteration

Sixth == FDiv(FromInt(1), FromInt(6))

Third == FDiv(FromInt(1), FromInt(3))

TwoThirds == FDiv(FromInt(2), FromInt(3))

\* The t of hue2rgb after "if (t < 0) t += 1; if (t > 1) t -= 1".
WrapT(t) ==
  LET t1 == IF FLt(t, Zero) THEN FAdd(t, FromInt(1)) ELSE t
  IN  IF FLt(FromInt(1), t1) THEN FSub(t1, FromInt(1)) ELSE t1

hue2rgb(p, q, t) ==
  LET u == WrapT(t)
  IN  IF FLt(u, Sixth) THEN FAdd(p, FMul(FMul(FSub(q, p), FromInt(6)), u))
      ELSE IF FLt(u, Half) THEN q
      ELSE IF FLt(u, TwoThirds)
           THEN FAdd(p, FMul(FMul(FSub(q, p), FSub(TwoThirds, u)), FromInt(6)))
      ELSE p

hslToRgb(h, s, l) ==
  IF s = Zero
  THEN <<FRound(FMul(l, FromInt(255))), FRound(FMul(l, FromInt(255))),
         FRound(FMul(l, FromInt(255)))>>
  ELSE LET q == IF FLt(l, Half) THEN FMul(l, FAdd(FromInt(1), s))
                ELSE FSub(FAdd(l, s), FMul(l, s))
           p == FSub(FMul(Two, l), q)
       IN  <<FRound(FMul(hue2rgb(p, q, FAdd(h, Third)), FromInt(255))),
             FRound(FMul(hue2rgb(p, q, h), FromInt(255))),
             FRound(FMul(hue2rgb(p, q, FSub(h, Third)), FromInt(255)))>>

\* const color = iteration === currentMaxIterations ? [0, 0, 0] : hslToRgb(...)
PixelColor(iteration, maxIt) ==
  IF iteration = maxIt THEN <<0, 0, 0>>
  ELSE hslToRgb(FDiv(FromInt(iteration), FromInt(maxIt)), FromInt(1), Half)

\* PixelIndex with the coordinates exchanged.
PixelIndexTransposed(px, py, w) == (px * w + py) * 4

\* const pixelIndex = (py * width + px) * 4
PixelIndex(px, py, w) == (py * w + px) * 4

(***************************************************************************)
(* The state of the component.                                             *)
(***************************************************************************)
VARIABLES
  width, height,        \* the props
  maxIterations,        \* useState(100)
  image,                \* useState(null): the image shown, NoImage or an Img
  centerX, centerY,     \* useState(-0.6), useState(0)
  zoom,                 \* useState(1)
  isPanning,            \* useState(false)
  cursor,               \* useState('default')
  lastMousePositionRef, \* useRef(null): Null or a pointer position
  loading,              \* the Images whose src is set and whose onload is due
  nextId,               \* how many times generateFractal has been called
  hist,                 \* the events delivered so far, each with the state before it
  phase, rpx, rpy,      \* generateFractal's pass: where its two loops are
  data,                 \* imageData.data
  written               \* the indices the pass stored to, in order

uiVars == <<maxIterations, image, centerX, centerY, zoom, isPanning, cursor,
            lastMousePositionRef, loading, nextId, hist>>

passVars == <<phase, rpx, rpy, data, written>>

vars == <<width, height, uiVars, passVars>>

\* The image one call of generateFractal makes: its pixels are a function of
\* the call's arguments, which stand for them; id tells the calls apart.
Img(id, cx, cy, z, maxIt) ==
  [id |-> id, centerX |-> cx, centerY |-> cy, zoom |-> z, maxIterations |-> maxIt]

\* An event as hist keeps it.
Event(kind, p) ==
  [kind |-> kind, p |-> p,
   centerX |-> centerX, centerY |-> centerY, zoom |-> zoom,
   maxIterations |-> maxIterations,
   isPanning |-> isPanning, lastMousePositionRef |-> lastMousePositionRef]

(***************************************************************************)
(* handleZoom                                                              *)
(***************************************************************************)
\* NewScale with the lower limit forgotten: Math.min(1000000, newScale) alone.
NewScaleNoFloor(oldScale, deltaYPositive) ==
  LET newScale == IF deltaYPositive THEN FDiv(oldScale, scaleBy)
                  ELSE FMul(oldScale, scaleBy)
  IN  FMin(MaxZoom, newScale)

\* let newScale = deltaY > 0 ? oldScale / scaleBy : oldScale * scaleBy;
\* newScale = Math.max(0.00001, Math.min(1000000, newScale))
NewScale(oldScale, deltaYPositive) ==
  LET newScale == IF deltaYPositive THEN FDiv(oldScale, scaleBy)
                  ELSE FMul(oldScale, scaleBy)
  IN  FMax(MinZoom, FMin(MaxZoom, newScale))

\* mousePointTo = { x: pointerPosition.x / width, y: pointerPosition.y / height }
MousePointTo(p, w, h) ==
  [x |-> FDiv(FromInt(p[1]), FromInt(w)), y |-> FDiv(FromInt(p[2]), FromInt(h))]

\* centerX + (mousePointTo.x - 0.5) * (4 / (width * oldScale)) * (oldScale - newScale)
NewCenterX(cx, mx, w, oldScale, newScale) ==
  FAdd(cx, FMul(FMul(FSub(mx, Half), FDiv(Four, FMul(FromInt(w), oldScale))),
                FSub(oldScale, newScale)))

\* centerY + (mousePointTo.y - 0.5) * (4 / (height * oldScale)) * (oldScale - newScale)
NewCenterY(cy, my, h, oldScale, newScale) ==
  FAdd(cy, FMul(FMul(FSub(my, Half), FDiv(Four, FMul(FromInt(h), oldScale))),
                FSub(oldScale, newScale)))

\* What follows a handler's state updates: the re-render and its effects.
\* The first effect calls generateFractal when one of its dependencies
\* changed, which leaves a new Image loading; the second sets the cursor
\* when isPanning changed.
Commit(cx, cy, z, maxIt, panning) ==
  /\ centerX' = cx
  /\ centerY' = cy
  /\ zoom' = z
  /\ maxIterations' = maxIt
  /\ isPanning' = panning
  /\ IF <<cx, cy, z, maxIt>> # <<centerX, centerY, zoom, maxIterations>>
     THEN /\ loading' = loading \cup {Img(nextId, cx, cy, z, maxIt)}
          /\ nextId' = nextId + 1
     ELSE UNCHANGED <<loading, nextId>>
  /\ cursor' = IF panning # isPanning
               THEN (IF panning THEN "grabbing" ELSE "grab")
               ELSE cursor
  /\ UNCHANGED <<width, height, image, passVars>>

\* handleZoom with the limits applied after the new centre is computed: the
\* centre moves by the requested zoom, the zoom is then clamped.
handleZoomClampAfter(p, deltaYPositive) ==
  /\ Len(hist) < MaxSteps
  /\ LET oldScale     == zoom
         mousePointTo == MousePointTo(p, width, height)
         requested    == IF deltaYPositive THEN FDiv(oldScale, scaleBy)
                         ELSE FMul(oldScale, scaleBy)
     IN  Commit(NewCenterX(centerX, mousePointTo.x, width, oldScale, requested),
                NewCenterY(centerY, mousePointTo.y, height, oldScale, requested),
                FMax(MinZoom, FMin(MaxZoom, requested)), maxIterations, isPanning)
  /\ UNCHANGED lastMousePositionRef
  /\ hist' = Append(hist, Event(IF deltaYPositive THEN "wheelOut" ELSE "wheelIn", p))

handleZoom(p, deltaYPositive) ==
  /\ Len(hist) < MaxSteps
  /\ LET oldScale     == zoom
         mousePointTo == MousePointTo(p, width, height)
         newScale     == NewScale(oldScale, deltaYPositive)
     IN  Commit(NewCenterX(centerX, mousePointTo.x, width, oldScale, newScale),
                NewCenterY(centerY, mousePointTo.y, height, oldScale, newScale),
                newScale, maxIterations, isPanning)
  /\ UNCHANGED lastMousePositionRef
  /\ hist' = Append(hist, Event(IF deltaYPositive THEN "wheelOut" ELSE "wheelIn", p))

(***************************************************************************)
(* handleMouseDown, handleMouseMove, handleMouseUp                         *)
(***************************************************************************)
\* Konva sets the stage's pointer position from the event before it calls a
\* handler, so getStage() and getPointerPosition() give the stage and the
\* event's position: the handlers' early returns on a missing stage or
\* position are never taken.
handleMouseDown(p) ==
  /\ Len(hist) < MaxSteps
  /\ Commit(centerX, centerY, zoom, maxIterations, TRUE)
  /\ lastMousePositionRef' = p
  /\ hist' = Append(hist, Event("down", p))

\* const scale = 4 / (width * zoom); d = (pointer - last) * scale;
\* prev => prev - d * sensitivity
PanCenter(c, cur, last, w, z) ==
  FSub(c, FMul(FMul(FromInt(cur - last), FDiv(Four, FMul(FromInt(w), z))), sensitivity))

\* handleMouseMove without "lastMousePositionRef.current = pointerPosition":
\* every move is measured from the position of the pointer-down.
handleMouseMoveKeepsAnchor(p) ==
  /\ Len(hist) < MaxSteps
  /\ IF ~isPanning \/ lastMousePositionRef = Null
     THEN Commit(centerX, centerY, zoom, maxIterations, isPanning)
     ELSE Commit(PanCenter(centerX, p[1], lastMousePositionRef[1], width, zoom),
                 PanCenter(centerY, p[2], lastMousePositionRef[2], width, zoom),
                 zoom, maxIterations, isPanning)
  /\ UNCHANGED lastMousePositionRef
  /\ hist' = Append(hist, Event("move", p))

handleMouseMove(p) ==
  /\ Len(hist) < MaxSteps
  /\ IF ~isPanning \/ lastMousePositionRef = Null
     THEN /\ Commit(centerX, centerY, zoom, maxIterations, isPanning)
          /\ UNCHANGED lastMousePositionRef
     ELSE /\ Commit(PanCenter(centerX, p[1], lastMousePositionRef[1], width, zoom),
                    PanCenter(centerY, p[2], lastMousePositionRef[2], width, zoom),
                    zoom, maxIterations, isPanning)
          /\ lastMousePositionRef' = p
  /\ hist' = Append(hist, Event("move", p))

\* handleMouseUp with an empty body: the pan never ends.
handleMouseUpIgnored(kind) ==
  /\ Len(hist) < MaxSteps
  /\ Commit(centerX, centerY, zoom, maxIterations, isPanning)
  /\ UNCHANGED lastMousePositionRef
  /\ hist' = Append(hist, Event(kind, Null))

\* handleMouseUp without "lastMousePositionRef.current = null".
handleMouseUpKeepsAnchor(kind) ==
  /\ Len(hist) < MaxSteps
  /\ Commit(centerX, centerY, zoom, maxIterations, FALSE)
  /\ UNCHANGED lastMousePositionRef
  /\ hist' = Append(hist, Event(kind, Null))

\* The handler of both onMouseUp and onMouseLeave.
handleMouseUp(kind) ==
  /\ Len(hist) < MaxSteps
  /\ Commit(centerX, centerY, zoom, maxIterations, FALSE)
  /\ lastMousePositionRef' = Null
  /\ hist' = Append(hist, Event(kind, Null))

onMouseUp == handleMouseUp("up")

onMouseLeave == handleMouseUp("leave")

(***************************************************************************)
(* The "Max Iterations" control and the Image's onload                     *)
(***************************************************************************)
\* onChange={(e) => setMaxIterations(Number(e.target.value))}
setMaxIterations(v) ==
  /\ Len(hist) < MaxSteps
  /\ Commit(centerX, centerY, zoom, v, isPanning)
  /\ UNCHANGED lastMousePositionRef
  /\ hist' = Append(hist, Event("iterations", v))

\* img.onload = () => { setImage(img) }: the loads end in any order.
onload(img) ==
  /\ Len(hist) < MaxSteps
  /\ img \in loading
  /\ image' = img
  /\ loading' = loading \ {img}
  /\ hist' = Append(hist, Event("load", img.id))
  /\ UNCHANGED <<width, height, maxIterations, centerX, centerY, zoom, isPanning,
                 cursor, lastMousePositionRef, nextId, passVars>>

(***************************************************************************)
(* generateFractal's pass over the pixels, one pixel a step.               *)
(***************************************************************************)
\* data[i] = v on a Uint8ClampedArray: a store outside the array does nothing.
Store(d, i, v) == IF i \in DOMAIN d THEN [d EXCEPT ![i] = v] ELSE d

\* The body of the inner loop for the pixel (rpx, rpy).
RenderPixel ==
  /\ phase = "loop"
  /\ rpx < width
  /\ LET x          == PlaneX(rpx, centerX, width, zoom)
         y          == PlaneY(rpy, centerY, width, height, zoom)
         iteration  == Escape(x, y, maxIterations)
         pixelIndex == PixelIndex(rpx, rpy, width)
         color      == PixelColor(iteration, maxIterations)
     IN  /\ data' = Store(Store(Store(Store(data, pixelIndex, color[1]),
                                      pixelIndex + 1, color[2]),
                                pixelIndex + 2, color[3]),
                          pixelIndex + 3, 255)
         /\ written' = written \o <<pixelIndex, pixelIndex + 1,
                                    pixelIndex + 2, pixelIndex + 3>>
  /\ IF rpy + 1 < height
     THEN /\ rpy' = rpy + 1
          /\ rpx' = rpx
     ELSE /\ rpy' = 0
          /\ rpx' = rpx + 1
  /\ UNCHANGED <<width, height, uiVars, phase>>

\* After the loops: putImageData, and a new Image whose src is the canvas.
FinishRender ==
  /\ phase = "loop"
  /\ rpx >= width
  /\ phase' = "done"
  /\ loading' = loading \cup {Img(nextId, centerX, centerY, zoom, maxIterations)}
  /\ nextId' = nextId + 1
  /\ UNCHANGED <<width, height, maxIterations, image, centerX, centerY, zoom,
                 isPanning, cursor, lastMousePositionRef, hist, rpx, rpy, data, written>>

(***************************************************************************)
(* The starting states.                                                    *)
(***************************************************************************)
RECURSIVE WheelTimes(_, _, _)
\* The zoom after k wheel events of one direction, the first half of them
\* and then the rest.
WheelTimes(z, k, deltaYPositive) ==
  IF z = Zero \/ k <= 0 THEN z
  ELSE IF k = 1 THEN NewScale(z, deltaYPositive)
  ELSE WheelTimes(WheelTimes(z, k \div 2, deltaYPositive), k - (k \div 2), deltaYPositive)

\* The component once mounted and its effects run, after k wheel events at
\* the centre of the stage (which leave the centre where it is) whose
\* images have all loaded in turn.  k = 0 is the component as constructed:
\* the first image is still loading.
Mounted(k, deltaYPositive) ==
  LET z == WheelTimes(InitialZoom, k, deltaYPositive)
  IN  /\ width = AppWidth
      /\ height = AppHeight
      /\ maxIterations = InitialMaxIterations
      /\ centerX = InitialCenterX
      /\ centerY = InitialCenterY
      /\ zoom = z
      /\ isPanning = FALSE
      /\ cursor = "grab"
      /\ lastMousePositionRef = Null
      /\ nextId = k + 1
      /\ image = IF k = 0 THEN NoImage
                 ELSE Img(k, InitialCenterX, InitialCenterY, z, InitialMaxIterations)
      /\ loading = IF k = 0
                   THEN {Img(0, InitialCenterX, InitialCenterY, z, InitialMaxIterations)}
                   ELSE {}
      /\ hist = << >>
      /\ phase = "idle"
      /\ rpx = 0
      /\ rpy = 0
      /\ data = << >>
      /\ written = << >>

Init ==
  \/ Mounted(0, FALSE)
  \/ Mounted(WheelsIn, FALSE)
  \/ Mounted(WheelsOut, TRUE)

Next ==
  \/ \E p \in Pointers : \E deltaYPositive \in BOOLEAN : handleZoom(p, deltaYPositive)
  \/ \E p \in Pointers : handleMouseDown(p)
  \/ \E p \in Pointers : handleMouseMove(p)
  \/ onMouseUp
  \/ onMouseLeave
  \/ \E v \in IterationInputs : setMaxIterations(v)
  \/ \E img \in loading : onload(img)

Spec == Init /\ [][Next]_vars

\* generateFractal just called, on a small canvas: createImageData gives an
\* array of width * height * 4 zeros.
InitRender ==
  \E w \in 1..MaxWidth, h \in 1..MaxHeight, k \in {0, 3}, maxIt \in PassIterations :
    /\ width = w
    /\ height = h
    /\ maxIterations = maxIt
    /\ centerX = InitialCenterX
    /\ centerY = InitialCenterY
    /\ zoom = WheelTimes(InitialZoom, k, FALSE)
    /\ isPanning = FALSE
    /\ cursor = "grab"
    /\ lastMousePositionRef = Null
    /\ nextId = 0
    /\ image = NoImage
    /\ loading = {}
    /\ hist = << >>
    /\ phase = "loop"
    /\ rpx = 0
    /\ rpy = 0
    /\ data = [i \in 0..(w * h * 4 - 1) |-> 0]
    /\ written = << >>

NextRender == RenderPixel \/ FinishRender

SpecRender == InitRender /\ [][NextRender]_vars

(***************************************************************************)
(* Properties.                                                             *)
(*                                                                         *)
(* hist gives every state the event that led to it and the state before    *)
(* that event.  A "tolerance" is 2^-(P-2), four units in the last place,   *)
(* of the largest magnitude that enters the compared computation: rounding *)
(* errors are of that order, and nothing smaller can be asked of a float.  *)
(***************************************************************************)
N == Len(hist)

Last == hist[Len(hist)]

StageCentre == <<AppWidth \div 2, AppHeight \div 2>>

Tol == Norm(1, 0 - (P - 2))

Close(a, b, mag) == FLe(FAbs(FSub(a, b)), FMul(Tol, mag))

Mag3(a, b, c) == FMax(FMax(FAbs(a), FAbs(b)), FAbs(c))

\* A pointer-down was delivered before event n and no pointer-up or
\* pointer-leave since.
PanningByHistory(n) ==
  \E j \in 1..(n - 1) :
    /\ hist[j].kind = "down"
    /\ \A k \in (j + 1)..(n - 1) : hist[k].kind \notin {"up", "leave"}

\* C1: after a zoom-in at the pointer pixel p, the renderer's map sends p to
\* the same point of the plane under the new viewport as under the old one,
\* up to the tolerance (of the larger of the point and the visible width).
ZoomTowardCursor ==
  (N > 0 /\ Last.kind = "wheelIn") =>
    LET e     == Last
        xOld  == PlaneX(e.p[1], e.centerX, width, e.zoom)
        xNew  == PlaneX(e.p[1], centerX, width, zoom)
        yOld  == PlaneY(e.p[2], e.centerY, width, height, e.zoom)
        yNew  == PlaneY(e.p[2], centerY, width, height, zoom)
        view  == FMul(FromInt(width), RenderScale(width, e.zoom))
    IN  /\ Close(xOld, xNew, Mag3(xOld, xNew, view))
        /\ Close(yOld, yNew, Mag3(yOld, yNew, view))

\* C2: in every reachable state 1e-5 <= zoom <= 1e6, and so zoom > 0.
ZoomWithinLimits ==
  /\ FLe(MinZoom, zoom)
  /\ FLe(zoom, MaxZoom)
  /\ FLt(Zero, zoom)

\* C2's case: a zoom-in whose request passed 1e6 from below was clamped, and a
\* second zoom-in arrived at the limit.
ZoomInPastUpperLimitTwice ==
  /\ N >= 2
  /\ hist[N - 1].kind = "wheelIn"
  /\ Last.kind = "wheelIn"
  /\ FLt(hist[N - 1].zoom, MaxZoom)
  /\ FLt(MaxZoom, FMul(hist[N - 1].zoom, scaleBy))
  /\ Last.zoom = MaxZoom
  /\ zoom = MaxZoom

\* C3 as stated: a pointer-down at p0, a move to p1 and a move back to p0
\* restore centerX and centerY to exactly their values at the pointer-down.
PanRoundTripExact ==
  (/\ N >= 3
   /\ hist[N - 2].kind = "down"
   /\ hist[N - 1].kind = "move"
   /\ Last.kind = "move"
   /\ Last.p = hist[N - 2].p)
  => /\ centerX = hist[N - 2].centerX
     /\ centerY = hist[N - 2].centerY

\* C3, amended: a pointer-down at p0, a move to p1 and a move back to p0
\* leave zoom as it was and restore centerX and centerY to their values at
\* the pointer-down up to the tolerance (of the larger of the centre before
\* and during the pan).
PanRoundTrip ==
  (/\ N >= 3
   /\ hist[N - 2].kind = "down"
   /\ hist[N - 1].kind = "move"
   /\ Last.kind = "move"
   /\ Last.p = hist[N - 2].p)
  => /\ zoom = hist[N - 2].zoom
     /\ Close(centerX, hist[N - 2].centerX,
              Mag3(centerX, hist[N - 2].centerX, Last.centerX))
     /\ Close(centerY, hist[N - 2].centerY,
              Mag3(centerY, hist[N - 2].centerY, Last.centerY))

\* C3's case: the pan went to another position, which moved the centre on
\* both axes, and came back.
PannedAwayAndBack ==
  /\ N >= 3
  /\ hist[N - 2].kind = "down"
  /\ hist[N - 1].kind = "move"
  /\ Last.kind = "move"
  /\ Last.p = hist[N - 2].p
  /\ Last.centerX # hist[N - 2].centerX
  /\ Last.centerY # hist[N - 2].centerY

\* C4: a pointer-move delivered while Idle (isPanning false; or no
\* pointer-down yet, or none since the last pointer-up or pointer-leave)
\* leaves centerX, centerY, zoom and the anchor as they were.
IdleMoveChangesNothing ==
  (N > 0 /\ Last.kind = "move" /\ (~Last.isPanning \/ ~PanningByHistory(N)))
  => /\ centerX = Last.centerX
     /\ centerY = Last.centerY
     /\ zoom = Last.zoom
     /\ lastMousePositionRef = Last.lastMousePositionRef

\* C4's case: a move to another position right after a pan was ended.
MovedAfterPointerUp ==
  /\ N >= 3
  /\ hist[N - 2].kind = "down"
  /\ hist[N - 1].kind = "up"
  /\ Last.kind = "move"
  /\ Last.p # hist[N - 2].p

\* C5: a pointer-down leads to Panning with the down position as the anchor;
\* a pointer-up or pointer-leave leads to Idle with no anchor, whatever the
\* state before; and the anchor is set only while Panning.
PanStateMachine ==
  /\ lastMousePositionRef # Null => isPanning
  /\ (N > 0 /\ Last.kind = "down") => (isPanning /\ lastMousePositionRef = Last.p)
  /\ (N > 0 /\ Last.kind \in {"up", "leave"}) => (~isPanning /\ lastMousePositionRef = Null)

\* C5's case: Idle -> Panning -> Idle, the pan ended by the pointer leaving.
PanEndedByLeave ==
  /\ N >= 2
  /\ ~hist[N - 1].isPanning
  /\ hist[N - 1].kind = "down"
  /\ Last.kind = "leave"
  /\ Last.isPanning
  /\ Last.lastMousePositionRef = hist[N - 1].p
  /\ ~isPanning

\* The calls of generateFractal whose image is loading or shown.
Calls == loading \cup (IF image = NoImage THEN {} ELSE {image})

\* C6: every call of generateFractal receives an iteration budget >= 1, and
\* the escape count (here of the pixel at the centre of the canvas) lies in
\* [0, maxIterations].
RendererBudgetAtLeastOne ==
  \A c \in Calls :
    /\ c.maxIterations >= 1
    /\ LET iteration == Escape(PlaneX(width \div 2, c.centerX, width, c.zoom),
                               PlaneY(height \div 2, c.centerY, width, height, c.zoom),
                               c.maxIterations)
       IN  0 <= iteration /\ iteration <= c.maxIterations

\* C7: a zoom-in at zoom = 1e6, or a zoom-out at zoom = 1e-5, leaves centerX,
\* centerY and zoom as they were, wherever the pointer is.
SaturatedZoomKeepsViewport ==
  (/\ N > 0
   /\ \/ Last.kind = "wheelIn" /\ Last.zoom = MaxZoom
      \/ Last.kind = "wheelOut" /\ Last.zoom = MinZoom)
  => /\ centerX = Last.centerX
     /\ centerY = Last.centerY
     /\ zoom = Last.zoom

\* C7's case: two zoom-outs in a row at the lower limit, the pointer off
\* the centre of the stage.
ZoomOutAtLowerLimitTwice ==
  /\ N >= 2
  /\ hist[N - 1].kind = "wheelOut"
  /\ hist[N - 1].zoom = MinZoom
  /\ hist[N - 1].p # StageCentre
  /\ Last.kind = "wheelOut"
  /\ Last.zoom = MinZoom
  /\ Last.p # StageCentre

\* C8: after a zoom gesture the new centre is, on both axes, the old centre
\* plus (normalized pointer - 0.5) * oldScale * (oldZoom - newZoom) with the
\* one oldScale = 4 / (width * oldZoom).
ZoomRecentersWithWidthScale ==
  (N > 0 /\ Last.kind \in {"wheelIn", "wheelOut"}) =>
    LET e        == Last
        m        == MousePointTo(e.p, width, height)
        oldScale == RenderScale(width, e.zoom)
    IN  /\ centerX = FAdd(e.centerX, FMul(FMul(FSub(m.x, Half), oldScale),
                                          FSub(e.zoom, zoom)))
        /\ centerY = FAdd(e.centerY, FMul(FMul(FSub(m.y, Half), oldScale),
                                          FSub(e.zoom, zoom)))

\* C9: a pass stores to no index twice and to none outside the buffer; when
\* it ends it has stored to every index of the width * height * 4 bytes, and
\* the slot at (py * width + px) * 4 holds the colour of pixel (px, py) and
\* the alpha 255.
PassWritesEverySlotOnce ==
  /\ \A k \in 1..Len(written) : written[k] \in 0..(width * height * 4 - 1)
  /\ \A k, l \in 1..Len(written) : written[k] = written[l] => k = l
  /\ phase = "done" =>
       /\ \A i \in 0..(width * height * 4 - 1) : \E k \in 1..Len(written) : written[k] = i
       /\ \A px \in 0..(width - 1), py \in 0..(height - 1) :
            LET i     == (py * width + px) * 4
                color == PixelColor(Escape(PlaneX(px, centerX, width, zoom),
                                           PlaneY(py, centerY, width, height, zoom),
                                           maxIterations),
                                    maxIterations)
            IN  <<data[i], data[i + 1], data[i + 2], data[i + 3]>> = color \o <<255>>

\* C9's case: a finished pass over a canvas of several rows and columns that
\* is not square.
PassOverOblongCanvasDone ==
  /\ phase = "done"
  /\ width > 1
  /\ height > 1
  /\ width # height
  /\ Len(written) = width * height * 4

\* C10: the image of an older call of generateFractal never replaces the
\* image of a newer one, and once every load has completed the image shown
\* is the render of the current centerX, centerY, zoom and maxIterations.
ShownImageNeverStale ==
  /\ \A i, j \in 1..N :
       (i < j /\ hist[i].kind = "load" /\ hist[j].kind = "load") => hist[i].p < hist[j].p
  /\ (loading = {} /\ image # NoImage) =>
       <<image.centerX, image.centerY, image.zoom, image.maxIterations>>
         = <<centerX, centerY, zoom, maxIterations>>

====
